---- MODULE Spec2Model ----
(***************************************************************************)
(* Model of src/video_analyzer.py: the per-video pipeline                  *)
(* (process_video), its batch driver (process_batch), the rate-limit wait, *)
(* the remote analysis with its response parsing, the transactional save   *)
(* and the frame extraction.                                               *)
(*                                                                         *)
(* External collaborators (the rate-limit stored procedure, yt-dlp,        *)
(* ffmpeg, the remote inference service, the database server) are          *)
(* nondeterministic: every outcome they can produce is a choice.           *)
(***************************************************************************)
EXTENDS Integers, Sequences, FiniteSets, TLC

(***************************************************************************)
(* Bounds of the model.                                                    *)
(***************************************************************************)
MaxVideos == 2
MaxRuns == 2
MaxBatches == 1
MaxTextLen == 2
ProseLen == 600
MaxWorkers == 2
MaxConfigRuns == 1

(***************************************************************************)
(* Program constants.                                                      *)
(***************************************************************************)
DefaultMaxWait == 120
PollInterval == 10
SummaryCap == 1000

Videos == 1..MaxVideos

\* Invocations of the program running at the same time against one store.
Workers == 1..MaxWorkers

\* Timestamps a key moment may carry: two inside the video, one beyond its end.
InRange == {10, 80}
OutOfRange == {99999}
Timestamps == InRange \cup OutOfRange

SeqsUpTo(S, n) == UNION {[1..k -> S] : k \in 0..n}
Range(s) == {s[k] : k \in 1..Len(s)}

\* key_moments lists the remote model may return.
KeyMomentLists == {<< >>, <<10>>, <<10, 80>>, <<10, 10>>, <<80, 99999>>}

(***************************************************************************)
(* Response text, as a sequence of chunks; n is the chunk's length in      *)
(* characters.                                                             *)
(***************************************************************************)
FenceJson == [k |-> "fence_json", n |-> 7, key_moments |-> << >>]
Fence == [k |-> "fence", n |-> 3, key_moments |-> << >>]
Blank == [k |-> "blank", n |-> 1, key_moments |-> << >>]
Prose == [k |-> "prose", n |-> ProseLen, key_moments |-> << >>]
JsonArray == [k |-> "json_array", n |-> 2, key_moments |-> << >>]
JsonObject(moments) == [k |-> "json_object", n |-> 20, key_moments |-> moments]

Chunks ==
    {FenceJson, Fence, Blank, Prose, JsonArray,
     JsonObject(<< >>), JsonObject(<<10>>)}
Texts == SeqsUpTo(Chunks, MaxTextLen)

\* Responses drawn while running the whole pipeline.
PipelineTexts ==
    {<<FenceJson, JsonObject(m), Fence>> : m \in KeyMomentLists}
        \cup {<<Prose>>, <<JsonArray>>}

VARIABLES
    db,         \* committed database state
    tx,         \* working copy of the open transaction
    fs,         \* filesystem: video files and frame images
    pc,         \* position of the running invocation
    cur,        \* video['id'] of the running process_video (0: none)
    skip,       \* skip_download
    saves,      \* per video id: number of committed save_analysis_to_db calls
    invocations, \* number of command-line invocations so far
    api,        \* api_name of the running wait_for_rate_limit
    max_wait,   \* max_wait of the running wait_for_rate_limit
    waited,     \* waited
    checks,     \* check_rate_limit calls made by the running wait
    grants,     \* api names granted in this run
    invoked,    \* external operations invoked in this run
    timedOut,   \* api name whose wait raised in this run ("none")
    hadFile,    \* video_path.exists() as read at the download decision
    before,     \* the video's rows, status and frame files when the run began
    fileState,  \* video_file.state.name
    text,       \* response.text
    analysis,   \* the dict analyze_video_with_gemini returns
    i,          \* loop index (moments, timestamps)
    extracted,  \* keys of extract_frames_batch's results
    wrote,      \* timestamps whose frame ffmpeg wrote in this call
    err,        \* the exception that ended the run ("none")
    selected,   \* process_batch: videos
    bi,         \* process_batch: i
    attempted,  \* process_batch: ids passed to process_video, in order
    reported,   \* process_batch: ids whose failure was printed
    pauses,     \* process_batch: ids after which the 5 s pause was taken
    gemini_api_key, \* GEMINI_API_KEY is set in the environment
    workers     \* concurrent invocations: each one's position and video

vars == <<db, tx, fs, pc, cur, skip, saves, invocations, api, max_wait, waited, checks,
          grants, invoked, timedOut, hadFile, before, fileState, text, analysis,
          i,
          extracted, wrote, err, selected, bi, attempted, reported, pauses,
          gemini_api_key, workers>>

dbVars == <<db, tx>>
waitVars == <<api, max_wait, waited, checks>>
runGhost == <<grants, invoked, timedOut, hadFile, before>>
analyzeVars == <<fileState, text, analysis>>
frameVars == <<extracted, wrote>>
batchVars == <<selected, bi, attempted, reported, pauses>>
envVars == <<gemini_api_key, workers>>

(***************************************************************************)
(* The database.                                                           *)
(***************************************************************************)
NoPath == [dir |-> 0, name |-> 0]
NoAnalysis == [kind |-> "none", key_moments |-> << >>, summary |-> << >>,
               error |-> FALSE, raw_response |-> << >>, has_metadata |-> FALSE]
NoText == << >>
NoStatus == [analysis_status |-> "none", frames_status |-> "none"]
NoBefore == [moments |-> {}, frames |-> {}, status |-> NoStatus, analysis |-> {}]
IdleWorker == [pc |-> "idle", videos |-> << >>, i |-> 0, cur |-> 0]

\* Columns of video_analysis written by the INSERT, and the modification time.
InsertColumns ==
    {"summary", "summary_pt", "difficulty_level", "key_topics",
     "techniques_shown", "models_mentioned", "custom_nodes_mentioned",
     "prerequisites", "raw_response", "model_used", "tokens_used"}
\* Columns assigned by ON CONFLICT (video_id) DO UPDATE SET.
UpdatedColumns ==
    {"summary", "summary_pt", "difficulty_level", "key_topics",
     "techniques_shown", "raw_response", "updated_at"}
Columns == InsertColumns \cup {"updated_at"}

EmptyDb ==
    [videos |-> [v \in Videos |->
                    [analysis_status |-> "pending", frames_status |-> "pending"]],
     video_analysis |-> {},
     video_moments |-> {}]

\* DatabaseConnection.__exit__: rollback when the block raised, else commit.
DatabaseConnection_exit_always_commits(exc_type, committed, working) == working

DatabaseConnection_exit(exc_type, committed, working) ==
    IF exc_type THEN committed ELSE working

\* INSERT INTO video_analysis ... without the ON CONFLICT clause.
upsert_analysis_plain_insert(rows, video_id, r) ==
    rows \cup {[video_id |-> video_id,
                cols |-> [c \in Columns |-> IF c = "updated_at" THEN 0 ELSE r]]}

\* INSERT INTO video_analysis ... ON CONFLICT (video_id) DO UPDATE SET ...
\* r stands for the values derived from the analysis of run r; updated_at is
\* left to the column default (0) by the INSERT and set by the UPDATE.
upsert_analysis(rows, video_id, r) ==
    IF \E row \in rows : row.video_id = video_id
    THEN {IF row.video_id = video_id
          THEN [row EXCEPT !.cols =
                    [c \in Columns |->
                        IF c \in UpdatedColumns THEN r ELSE row.cols[c]]]
          ELSE row : row \in rows}
    ELSE rows \cup {[video_id |-> video_id,
                     cols |-> [c \in Columns |->
                                  IF c = "updated_at" THEN 0 ELSE r]]}

\* The uniqueness of video_moments on (video_id, timestamp_seconds).
moment_conflict(rows, video_id, ts) ==
    \E row \in rows : row.video_id = video_id /\ row.timestamp_seconds = ts

MomentRow(video_id, ts, content) ==
    [video_id |-> video_id, timestamp_seconds |-> ts, content |-> content,
     frame_path |-> NoPath]

\* INSERT INTO video_moments ... without honouring the conflict.
insert_moment_always(rows, video_id, ts, content) ==
    rows \cup {MomentRow(video_id, ts, content)}

\* INSERT INTO video_moments ... ON CONFLICT DO NOTHING
insert_moment(rows, video_id, ts, content) ==
    IF moment_conflict(rows, video_id, ts)
    THEN rows
    ELSE rows \cup {MomentRow(video_id, ts, content)}

\* UPDATE videos SET analysis_status = 'completed' WHERE id = video_id
set_analysis_completed(videos, video_id) ==
    [videos EXCEPT ![video_id].analysis_status = "completed"]

\* frame_path = output_dir / f"frame_{ts:05d}s.jpg", output_dir = FRAMES_DIR / id
frame_path_of(video_id, ts) == [dir |-> video_id, name |-> ts]

\* The frame path written to every row of the video.
update_frame_paths_all_rows(d, video_id, keys) ==
    [d EXCEPT
        !.video_moments =
            {IF row.video_id = video_id
             THEN [row EXCEPT !.frame_path =
                       frame_path_of(video_id, row.timestamp_seconds)]
             ELSE row : row \in d.video_moments},
        !.videos[video_id].frames_status = "completed"]

\* UPDATE video_moments SET frame_path = ... for each extracted timestamp,
\* then UPDATE videos SET frames_status = 'completed'.
update_frame_paths(d, video_id, keys) ==
    [d EXCEPT
        !.video_moments =
            {IF row.video_id = video_id /\ row.timestamp_seconds \in keys
             THEN [row EXCEPT !.frame_path =
                       frame_path_of(video_id, row.timestamp_seconds)]
             ELSE row : row \in d.video_moments},
        !.videos[video_id].frames_status = "completed"]

(***************************************************************************)
(* analyze_video_with_gemini: cleaning and parsing the response text.      *)
(***************************************************************************)
RECURSIVE lstrip(_)
lstrip(t) == IF t # << >> /\ Head(t).k = "blank" THEN lstrip(Tail(t)) ELSE t

RECURSIVE rstrip(_)
rstrip(t) ==
    IF t # << >> /\ t[Len(t)].k = "blank"
    THEN rstrip(SubSeq(t, 1, Len(t) - 1))
    ELSE t

IsNotFenceJson(c) == c.k # "fence_json"
IsNotFence(c) == c.k # "fence"

\* text.replace("```json", "").replace("```", "").strip()
clean_text(t) ==
    rstrip(lstrip(SelectSeq(SelectSeq(t, IsNotFenceJson), IsNotFence)))

\* text[:cap]
RECURSIVE slice_to(_, _)
slice_to(t, cap) ==
    IF t = << >> \/ cap <= 0
    THEN << >>
    ELSE IF Head(t).n <= cap
         THEN <<Head(t)>> \o slice_to(Tail(t), cap - Head(t).n)
         ELSE <<[Head(t) EXCEPT !.n = cap]>>

\* json.loads(text): the type of the decoded value, or a JSONDecodeError.
json_loads(t) ==
    IF Len(t) = 1 /\ t[1].k = "json_object" THEN "dict"
    ELSE IF Len(t) = 1 /\ t[1].k = "json_array" THEN "list"
    ELSE "JSONDecodeError"

\* Lines 269-292: the dict returned for response.text = t, or the exception
\* raised. analysis["_metadata"] = ... is an item assignment with a string
\* key: it raises TypeError on a decoded value that is not a dict.
parse_response(t) ==
    LET cleaned == clean_text(t)
        decoded == json_loads(cleaned)
    IN  IF decoded = "JSONDecodeError"
        THEN [raised |-> "none",
              value |-> [kind |-> "degraded", key_moments |-> << >>,
                         summary |-> slice_to(cleaned, SummaryCap),
                         error |-> TRUE, raw_response |-> cleaned,
                         has_metadata |-> TRUE]]
        ELSE IF decoded = "dict"
        THEN [raised |-> "none",
              value |-> [kind |-> "parsed",
                         key_moments |-> cleaned[1].key_moments,
                         summary |-> << >>, error |-> FALSE,
                         raw_response |-> << >>, has_metadata |-> TRUE]]
        ELSE [raised |-> "TypeError", value |-> NoAnalysis]

(***************************************************************************)
(* Helpers of the pipeline.                                                *)
(***************************************************************************)
\* wait_for_rate_limit called with its default api_name.
DownloadResource_default == "gemini_flash"

\* wait_for_rate_limit("youtube_data"), wait_for_rate_limit("gemini_flash")
DownloadResource == "youtube_data"
AnalysisResource == "gemini_flash"
Resources == {DownloadResource, AnalysisResource}

WaitPcs == {"wait", "wait_download", "wait_analysis"}
SavePcs == {"save", "save_moments"}

\* The download step left out: the analysis follows the download grant.
AfterGrant_no_download(p) ==
    CASE p = "wait_download" -> "upload"
      [] p = "wait_analysis" -> "upload"
      [] OTHER -> "granted"

\* Where wait_for_rate_limit returns to.
AfterGrant(p) ==
    CASE p = "wait_download" -> "download"
      [] p = "wait_analysis" -> "upload"
      [] OTHER -> "granted"

\* A failure handled by going on to the cleanup instead of propagating.
Fail_then_cleanup(kind) == pc' = "cleanup" /\ err' = kind

\* raise: the exception leaves process_video.
Fail(kind) == pc' = "failed" /\ err' = kind

\* video_file.state.name
FileStates == {"PROCESSING", "ACTIVE", "FAILED", "STATE_UNSPECIFIED"}

\* Any state other than PROCESSING accepted.
handle_ready_any(state) == TRUE

\* if video_file.state.name != "ACTIVE": raise
handle_ready(state) == state = "ACTIVE"

\* Exception(f"Falha no processamento do video: {video_file.state.name}")
processing_error(state) ==
    CASE state = "FAILED" -> "ProcessingError(FAILED)"
      [] state = "STATE_UNSPECIFIED" -> "ProcessingError(STATE_UNSPECIFIED)"
      [] OTHER -> "ProcessingError"

\* Frames extracted whatever the analysis holds.
frames_wanted_always(moments) == TRUE

\* if moments:
frames_wanted(moments) == moments # << >>

\* The pause taken after every job, the last one included.
pause_due_always(idx, n) == TRUE

\* if i < len(videos): time.sleep(5)
pause_due(idx, n) == idx < n

\* if not skip_download or not video_path.exists()
download_needed_ignores_file(skip_download, exists) == ~skip_download

download_needed(skip_download, exists) == ~skip_download \/ ~exists

\* The wait never gives up.
wait_expired_never(w, mw) == FALSE

\* if waited >= max_wait
wait_expired_late(w, mw) == w > mw

wait_expired(w, mw) == w >= mw

\* The download taken to have succeeded whatever yt-dlp did.
download_video_result_always(rc, exists_after) == TRUE

\* download_video's return value: False on a nonzero exit status or a timeout,
\* else output_path.exists().
download_video_result(rc, exists_after) ==
    IF rc = "zero" THEN exists_after ELSE FALSE

\* What one ffmpeg run can do: write the frame, end without writing it, or
\* make subprocess.run raise (the 30 s timeout). A seek beyond the end of the
\* video, or a missing input, writes nothing.
ffmpeg_outcomes(video_exists, ts) ==
    IF video_exists /\ ts \in InRange
    THEN {"wrote", "nothing", "raised"}
    ELSE {"nothing", "raised"}

\* extract_frame's return value.
extract_frame_result(outcome, exists_after) ==
    IF outcome = "raised" THEN FALSE ELSE exists_after

(***************************************************************************)
(* Initial states.                                                         *)
(***************************************************************************)
InitLocals ==
    /\ cur = 0 /\ skip = FALSE
    /\ api = "none" /\ max_wait = 0 /\ waited = 0 /\ checks = 0
    /\ grants = {} /\ invoked = {} /\ timedOut = "none" /\ hadFile = FALSE
    /\ before = NoBefore
    /\ fileState = "none" /\ text = NoText /\ analysis = NoAnalysis
    /\ i = 0 /\ extracted = {} /\ wrote = {} /\ err = "none"

InitStore ==
    /\ db = EmptyDb /\ tx = EmptyDb
    /\ fs = [video |-> {}, frames |-> {}]
    /\ saves = [v \in Videos |-> 0]
    /\ invocations = 0
    /\ selected = << >> /\ bi = 0 /\ attempted = << >> /\ reported = {}
    /\ pauses = {}
    /\ workers = [p \in Workers |-> IdleWorker]

Init == InitStore /\ InitLocals /\ gemini_api_key = TRUE /\ pc = "idle"

(***************************************************************************)
(* process_video, lines 378-430: look the video up, reset the run, and      *)
(* decide between the download and the existing file.                      *)
(***************************************************************************)
StartVideo(v, s) ==
    /\ cur' = v /\ skip' = s
    /\ hadFile' = (v \in fs.video)
    /\ before' = [moments |-> {row.timestamp_seconds :
                                  row \in {m \in db.video_moments : m.video_id = v}},
                   frames |-> {f \in fs.frames : f.dir = v},
                   status |-> db.videos[v],
                   analysis |-> {row \in db.video_analysis : row.video_id = v}]
    /\ grants' = {} /\ invoked' = {} /\ timedOut' = "none" /\ err' = "none"
    /\ fileState' = "none" /\ text' = NoText /\ analysis' = NoAnalysis
    /\ i' = 0 /\ extracted' = {} /\ wrote' = {}
    /\ IF download_needed(s, v \in fs.video)
       THEN pc' = "wait_download" /\ api' = DownloadResource
       ELSE pc' = "wait_analysis" /\ api' = AnalysisResource
    /\ max_wait' = DefaultMaxWait /\ waited' = 0 /\ checks' = 0
    /\ UNCHANGED <<db, tx, fs, saves>>

\* __main__, lines 543-548: one invocation for one video.
main_process_video ==
    /\ pc = "idle"
    /\ invocations < MaxRuns
    /\ invocations' = invocations + 1
    /\ \E v \in Videos, s \in BOOLEAN : StartVideo(v, s)
    /\ UNCHANGED <<batchVars, envVars>>

\* The invocation ends (normally, or by the exception that left process_video).
main_exit ==
    /\ pc \in {"done", "failed"}
    /\ pc' = "idle"
    /\ cur' = 0 /\ skip' = FALSE
    /\ api' = "none" /\ max_wait' = 0 /\ waited' = 0 /\ checks' = 0
    /\ grants' = {} /\ invoked' = {} /\ timedOut' = "none" /\ hadFile' = FALSE
    /\ before' = NoBefore
    /\ fileState' = "none" /\ text' = NoText /\ analysis' = NoAnalysis
    /\ i' = 0 /\ extracted' = {} /\ wrote' = {} /\ err' = "none"
    /\ UNCHANGED <<db, tx, fs, saves, invocations>>
    /\ UNCHANGED <<batchVars, envVars>>

(***************************************************************************)
(* wait_for_rate_limit, lines 141-150. Each step is one evaluation of the  *)
(* loop condition, that is one check_rate_limit call, whose answer is the  *)
(* stored procedure's.                                                     *)
(***************************************************************************)
\* check_rate_limit returned True: the loop ends and the call returns (its
\* locals are gone).
wait_for_rate_limit_ok ==
    /\ pc \in WaitPcs
    /\ grants' = grants \cup {api}
    /\ pc' = AfterGrant(pc)
    /\ api' = "none" /\ max_wait' = 0 /\ waited' = 0 /\ checks' = 0
    /\ UNCHANGED <<db, tx, fs, cur, skip, saves, invocations, invoked,
                   timedOut, hadFile, before, i, err>>
    /\ UNCHANGED <<analyzeVars, frameVars, batchVars, envVars>>

\* check_rate_limit returned False and waited < max_wait: sleep and retry.
wait_for_rate_limit_sleep ==
    /\ pc \in WaitPcs
    /\ ~wait_expired(waited, max_wait)
    /\ checks' = checks + 1
    /\ waited' = waited + PollInterval
    /\ UNCHANGED <<db, tx, fs, pc, cur, skip, saves, invocations, api,
                   max_wait, i, err>>
    /\ UNCHANGED <<runGhost, analyzeVars, frameVars, batchVars, envVars>>

\* check_rate_limit returned False and waited >= max_wait: raise.
wait_for_rate_limit_raise ==
    /\ pc \in WaitPcs
    /\ wait_expired(waited, max_wait)
    /\ checks' = checks + 1
    /\ timedOut' = api
    /\ Fail("RateLimitTimeout")
    /\ UNCHANGED <<db, tx, fs, cur, skip, saves, invocations, api, max_wait, waited,
                   grants, invoked, hadFile, before, i>>
    /\ UNCHANGED <<analyzeVars, frameVars, batchVars, envVars>>

(***************************************************************************)
(* download_video, lines 153-177, and its caller, lines 427-434.           *)
(***************************************************************************)
download_video ==
    /\ pc = "download"
    /\ invoked' = invoked \cup {"downloader"}
    /\ \E rc \in {"zero", "nonzero", "timeout"}, written \in BOOLEAN :
          /\ written => rc = "zero"
          /\ fs' = [fs EXCEPT !.video =
                        IF written THEN fs.video \cup {cur} ELSE fs.video]
          /\ IF download_video_result(rc, cur \in fs'.video)
             THEN /\ pc' = "wait_analysis"
                  /\ api' = AnalysisResource
                  /\ max_wait' = DefaultMaxWait
                  /\ err' = err
             ELSE /\ Fail("DownloadError")
                  /\ UNCHANGED <<api, max_wait>>
    /\ UNCHANGED <<db, tx, cur, skip, saves, invocations, waited, checks,
                   grants, timedOut, hadFile, before, i>>
    /\ UNCHANGED <<analyzeVars, frameVars, batchVars, envVars>>

(***************************************************************************)
(* analyze_video_with_gemini, lines 216-292.                               *)
(***************************************************************************)
\* The credential check of line 219, then genai.upload_file: it returns a
\* handle in some state, or raises.
analyze_upload ==
    /\ pc = "upload"
    /\ invoked' = invoked \cup {"analyzer"}
    /\ IF ~gemini_api_key
       THEN /\ Fail("ValueError")
            /\ fileState' = fileState
       ELSE \/ /\ \E st \in FileStates : fileState' = st
               /\ pc' = "poll"
               /\ err' = err
            \/ /\ Fail("AnalysisServiceError")
               /\ fileState' = fileState
    /\ UNCHANGED <<db, tx, fs, cur, skip, saves, invocations, grants, timedOut, hadFile,
                   before, text, analysis, i>>
    /\ UNCHANGED <<waitVars, frameVars, batchVars, envVars>>

\* while video_file.state.name == "PROCESSING": the loop is entered and
\* time.sleep(5) is taken.
analyze_poll_sleep ==
    /\ pc = "poll"
    /\ fileState = "PROCESSING"
    /\ pc' = "poll_sleep"
    /\ UNCHANGED <<db, tx, fs, cur, skip, saves, invocations, fileState, text,
                   analysis, i, err>>
    /\ UNCHANGED <<waitVars, runGhost, frameVars, batchVars, envVars>>

\* video_file = genai.get_file(video_file.name): it returns the handle in
\* some state, or raises; then the loop condition is tested again.
analyze_poll ==
    /\ pc = "poll_sleep"
    /\ \/ /\ \E st \in FileStates : fileState' = st
          /\ pc' = "poll"
          /\ err' = err
       \/ /\ Fail("AnalysisServiceError")
          /\ fileState' = fileState
    /\ UNCHANGED <<db, tx, fs, cur, skip, saves, invocations, text,
                   analysis, i>>
    /\ UNCHANGED <<waitVars, runGhost, frameVars, batchVars, envVars>>

\* The state left PROCESSING: raise unless ACTIVE, else generate_content
\* (which returns a response or raises) and the best-effort delete_file.
analyze_generate ==
    /\ pc = "poll"
    /\ fileState # "PROCESSING"
    /\ IF ~handle_ready(fileState)
       THEN /\ Fail(processing_error(fileState))
            /\ invoked' = invoked
            /\ text' = text
       ELSE /\ invoked' = invoked \cup {"generate_content"}
            /\ \/ /\ \E t \in PipelineTexts : text' = t
                  /\ pc' = "parse"
                  /\ err' = err
               \/ /\ Fail("AnalysisServiceError")
                  /\ text' = text
    /\ UNCHANGED <<db, tx, fs, cur, skip, saves, invocations, grants, timedOut, hadFile,
                   before, fileState, analysis, i>>
    /\ UNCHANGED <<waitVars, frameVars, batchVars, envVars>>

\* Lines 268-292: clean, parse, attach the metadata, return.
analyze_parse ==
    /\ pc = "parse"
    /\ LET r == parse_response(text)
       IN  IF r.raised = "none"
           THEN /\ analysis' = r.value
                /\ pc' = "save"
                /\ err' = err
           ELSE /\ analysis' = analysis
                /\ Fail(r.raised)
    /\ UNCHANGED <<db, tx, fs, cur, skip, saves, invocations, fileState, text,
                   i>>
    /\ UNCHANGED <<waitVars, runGhost, frameVars, batchVars, envVars>>

(***************************************************************************)
(* save_analysis_to_db, lines 295-375: one transaction. The values of the  *)
(* r-th committed save of a video are written r; a key moment's fields are *)
(* <<r, position in key_moments>>.                                         *)
(***************************************************************************)
\* Enter the connection and execute the upsert.
save_analysis_to_db_upsert ==
    /\ pc = "save"
    /\ tx' = [db EXCEPT !.video_analysis =
                  upsert_analysis(db.video_analysis, cur, saves[cur] + 1)]
    /\ pc' = "save_moments"
    /\ i' = 1
    /\ UNCHANGED <<db, fs, cur, skip, saves, invocations, err>>
    /\ UNCHANGED <<waitVars, runGhost, analyzeVars, frameVars, batchVars,
                   envVars>>

\* for moment in analysis.get("key_moments", []): one INSERT.
save_analysis_to_db_moment ==
    /\ pc = "save_moments"
    /\ i <= Len(analysis.key_moments)
    /\ tx' = [tx EXCEPT !.video_moments =
                  insert_moment(tx.video_moments, cur,
                                analysis.key_moments[i], <<saves[cur] + 1, i>>)]
    /\ i' = i + 1
    /\ UNCHANGED <<db, fs, pc, cur, skip, saves, invocations, err>>
    /\ UNCHANGED <<waitVars, runGhost, analyzeVars, frameVars, batchVars,
                   envVars>>

\* The status UPDATE, the return and the commit of __exit__; then lines
\* 452-459 of process_video choose between the frames and the cleanup.
save_analysis_to_db_commit ==
    /\ pc = "save_moments"
    /\ i > Len(analysis.key_moments)
    /\ db' = DatabaseConnection_exit(
                 FALSE, db,
                 [tx EXCEPT !.videos = set_analysis_completed(tx.videos, cur)])
    /\ tx' = db'
    /\ pc' = IF frames_wanted(analysis.key_moments)
             THEN "extract"
             ELSE "cleanup"
    /\ i' = 1
    /\ extracted' = {} /\ wrote' = {}
    /\ saves' = [saves EXCEPT ![cur] = @ + 1]
    /\ UNCHANGED <<fs, cur, skip, invocations, err>>
    /\ UNCHANGED <<waitVars, runGhost, analyzeVars, batchVars, envVars>>

\* A statement (or the connection, or the commit) raises: __exit__ rolls back.
save_analysis_to_db_raise ==
    /\ pc \in SavePcs
    /\ db' = DatabaseConnection_exit(TRUE, db, tx)
    /\ tx' = db'
    /\ Fail("PersistenceError")
    /\ UNCHANGED <<fs, cur, skip, saves, invocations, i>>
    /\ UNCHANGED <<waitVars, runGhost, analyzeVars, frameVars, batchVars,
                   envVars>>

(***************************************************************************)
(* extract_frames_batch and extract_frame, lines 180-213.                  *)
(***************************************************************************)
extract_frame ==
    /\ pc = "extract"
    /\ i <= Len(analysis.key_moments)
    /\ invoked' = invoked \cup {"transcoder"}
    /\ LET ts == analysis.key_moments[i]
           frame_path == frame_path_of(cur, ts)
       IN  \E outcome \in ffmpeg_outcomes(cur \in fs.video, ts) :
              /\ fs' = [fs EXCEPT !.frames =
                            IF outcome = "wrote"
                            THEN fs.frames \cup {frame_path}
                            ELSE fs.frames]
              /\ wrote' = IF outcome = "wrote" THEN wrote \cup {ts} ELSE wrote
              /\ extracted' =
                    IF extract_frame_result(outcome, frame_path \in fs'.frames)
                    THEN extracted \cup {ts}
                    ELSE extracted
    /\ i' = i + 1
    /\ UNCHANGED <<db, tx, pc, cur, skip, saves, invocations, grants,
                   timedOut, hadFile, before, err>>
    /\ UNCHANGED <<waitVars, analyzeVars, batchVars, envVars>>

(***************************************************************************)
(* process_video, lines 461-487: the frame-path transaction and cleanup.   *)
(***************************************************************************)
process_video_frames_commit ==
    /\ pc = "extract"
    /\ i > Len(analysis.key_moments)
    /\ db' = DatabaseConnection_exit(
                 FALSE, db, update_frame_paths(db, cur, extracted))
    /\ tx' = db'
    /\ pc' = "cleanup"
    /\ UNCHANGED <<fs, cur, skip, saves, invocations, i, err>>
    /\ UNCHANGED <<waitVars, runGhost, analyzeVars, frameVars, batchVars,
                   envVars>>

process_video_frames_raise ==
    /\ pc = "extract"
    /\ i > Len(analysis.key_moments)
    /\ db' = DatabaseConnection_exit(
                 TRUE, db, update_frame_paths(db, cur, extracted))
    /\ tx' = db'
    /\ Fail("PersistenceError")
    /\ UNCHANGED <<fs, cur, skip, saves, invocations, i>>
    /\ UNCHANGED <<waitVars, runGhost, analyzeVars, frameVars, batchVars,
                   envVars>>

\* if video_path.exists(): video_path.unlink()
unlink_video_never(files, video_id) == files

unlink_video(files, video_id) == files \ {video_id}

process_video_cleanup ==
    /\ pc = "cleanup"
    /\ fs' = [fs EXCEPT !.video = unlink_video(fs.video, cur)]
    /\ pc' = "done"
    /\ UNCHANGED <<db, tx, cur, skip, saves, invocations, i, err>>
    /\ UNCHANGED <<waitVars, runGhost, analyzeVars, frameVars, batchVars,
                   envVars>>

(***************************************************************************)
(* process_batch, lines 490-525.                                           *)
(***************************************************************************)
\* Stand-ins for columns the pipeline only reads.
published_at(v) == v
source_id_of(v) == (v % 2) + 1
Sources == {source_id_of(v) : v \in Videos}

\* ORDER BY v.published_at DESC
RECURSIVE order_desc(_)
order_desc(S) ==
    IF S = {}
    THEN << >>
    ELSE LET m == CHOOSE x \in S :
                    \A y \in S : published_at(y) <= published_at(x)
         IN  <<m>> \o order_desc(S \ {m})

\* The SELECT of lines 495-510; source 0 stands for source_id = None.
select_pending(d, limit, source) ==
    LET rows == {v \in Videos :
                    /\ d.videos[v].analysis_status = "pending"
                    /\ (source # 0 => source_id_of(v) = source)}
        ordered == order_desc(rows)
    IN  SubSeq(ordered, 1, IF limit < Len(ordered) THEN limit ELSE Len(ordered))

\* except Exception: print, continue
index_after_error_break(idx, n) == n + 1

index_after_error(idx, n) == idx + 1

process_batch_select ==
    /\ pc = "idle"
    /\ invocations < MaxBatches
    /\ invocations' = invocations + 1
    /\ \E limit \in 1..MaxVideos, source \in {0} \cup Sources :
          selected' = select_pending(db, limit, source)
    /\ bi' = 1
    /\ attempted' = << >> /\ reported' = {} /\ pauses' = {}
    /\ pc' = "batch_loop"
    /\ UNCHANGED <<db, tx, fs, cur, skip, saves, i, err>>
    /\ UNCHANGED <<waitVars, runGhost, analyzeVars, frameVars>>
    /\ UNCHANGED envVars

\* The loop body up to the call: process_video(video_id=video['id'])
process_batch_call ==
    /\ pc = "batch_loop"
    /\ bi <= Len(selected)
    /\ StartVideo(selected[bi], FALSE)
    /\ attempted' = Append(attempted, selected[bi])
    /\ invocations' = invocations
    /\ UNCHANGED <<selected, bi, reported, pauses>>
    /\ UNCHANGED envVars

\* process_video returned or raised: the except clause, or the pause.
process_batch_next ==
    /\ pc \in {"done", "failed"}
    /\ IF pc = "failed"
       THEN /\ reported' = reported \cup {cur}
            /\ pauses' = pauses
            /\ bi' = index_after_error(bi, Len(selected))
       ELSE /\ reported' = reported
            /\ pauses' = IF pause_due(bi, Len(selected))
                         THEN pauses \cup {cur}
                         ELSE pauses
            /\ bi' = bi + 1
    /\ pc' = "batch_loop"
    /\ cur' = 0 /\ skip' = FALSE
    /\ api' = "none" /\ max_wait' = 0 /\ waited' = 0 /\ checks' = 0
    /\ grants' = {} /\ invoked' = {} /\ timedOut' = "none" /\ hadFile' = FALSE
    /\ before' = NoBefore
    /\ fileState' = "none" /\ text' = NoText /\ analysis' = NoAnalysis
    /\ i' = 0 /\ extracted' = {} /\ wrote' = {} /\ err' = "none"
    /\ UNCHANGED <<db, tx, fs, saves, invocations, selected, attempted>>
    /\ UNCHANGED envVars

\* The loop is exhausted: process_batch returns.
process_batch_end ==
    /\ pc = "batch_loop"
    /\ bi > Len(selected)
    /\ pc' = "batch_done"
    /\ UNCHANGED <<db, tx, fs, cur, skip, saves, invocations, i, err>>
    /\ UNCHANGED <<waitVars, runGhost, analyzeVars, frameVars, batchVars,
                   envVars>>

\* The batch invocation ends.
batch_exit ==
    /\ pc = "batch_done"
    /\ pc' = "idle"
    /\ selected' = << >> /\ bi' = 0 /\ attempted' = << >> /\ reported' = {}
    /\ pauses' = {}
    /\ UNCHANGED <<db, tx, fs, cur, skip, saves, invocations, i, err>>
    /\ UNCHANGED <<waitVars, runGhost, analyzeVars, frameVars>>
    /\ UNCHANGED envVars

(***************************************************************************)
(* Specifications.                                                         *)
(***************************************************************************)
PipelineStep ==
    \/ wait_for_rate_limit_ok
    \/ wait_for_rate_limit_sleep
    \/ wait_for_rate_limit_raise
    \/ download_video
    \/ analyze_upload
    \/ analyze_poll_sleep
    \/ analyze_poll
    \/ analyze_generate
    \/ analyze_parse
    \/ save_analysis_to_db_upsert
    \/ save_analysis_to_db_moment
    \/ save_analysis_to_db_commit
    \/ save_analysis_to_db_raise
    \/ extract_frame
    \/ process_video_frames_commit
    \/ process_video_frames_raise
    \/ process_video_cleanup

\* Single-video invocations, one after another, against one store.
Next ==
    \/ main_process_video
    \/ main_exit
    \/ PipelineStep

Spec == Init /\ [][Next]_vars

\* Batch invocations against one store.
NextBatch ==
    \/ process_batch_select
    \/ process_batch_call
    \/ process_batch_next
    \/ process_batch_end
    \/ batch_exit
    \/ PipelineStep

SpecBatch == Init /\ [][NextBatch]_vars

\* wait_for_rate_limit alone, for every max_wait up to the default.
InitWait ==
    /\ InitStore /\ gemini_api_key = TRUE
    /\ cur = 0 /\ skip = FALSE
    /\ api \in Resources /\ max_wait \in 0..DefaultMaxWait
    /\ waited = 0 /\ checks = 0
    /\ grants = {} /\ invoked = {} /\ timedOut = "none" /\ hadFile = FALSE
    /\ before = NoBefore
    /\ fileState = "none" /\ text = NoText /\ analysis = NoAnalysis
    /\ i = 0 /\ extracted = {} /\ wrote = {} /\ err = "none"
    /\ pc = "wait"

NextWait ==
    \/ wait_for_rate_limit_ok
    \/ wait_for_rate_limit_sleep
    \/ wait_for_rate_limit_raise

SpecWait == InitWait /\ [][NextWait]_vars

\* The response handling of analyze_video_with_gemini alone, for every text.
InitParse ==
    /\ InitStore /\ gemini_api_key = TRUE
    /\ cur = 0 /\ skip = FALSE
    /\ api = "none" /\ max_wait = 0 /\ waited = 0 /\ checks = 0
    /\ grants = {} /\ invoked = {} /\ timedOut = "none" /\ hadFile = FALSE
    /\ before = NoBefore
    /\ fileState = "ACTIVE" /\ text \in Texts /\ analysis = NoAnalysis
    /\ i = 0 /\ extracted = {} /\ wrote = {} /\ err = "none"
    /\ pc = "parse"

NextParse == analyze_parse

SpecParse == InitParse /\ [][NextParse]_vars

\* One single-video invocation, with GEMINI_API_KEY set or unset.
InitConfig ==
    /\ InitStore /\ InitLocals
    /\ gemini_api_key \in BOOLEAN
    /\ pc = "idle"

\* __main__, lines 543-548, read with the module-level os.getenv of line 31.
main_single_job ==
    /\ pc = "idle"
    /\ invocations < MaxConfigRuns
    /\ invocations' = invocations + 1
    /\ \E v \in Videos, s \in BOOLEAN : StartVideo(v, s)
    /\ UNCHANGED <<batchVars, envVars>>

NextConfig ==
    \/ main_single_job
    \/ main_exit
    \/ PipelineStep

SpecConfig == InitConfig /\ [][NextConfig]_vars

(***************************************************************************)
(* Several invocations of the program running at the same time against one *)
(* store. Each is an operating-system process of its own; the program      *)
(* takes no lock and marks no video as taken before it processes it.       *)
(* A worker's process_video is reduced to its outcome: the committed save  *)
(* of lines 295-375, or an exception.                                      *)
(***************************************************************************)
pipelineVars ==
    <<fs, pc, cur, skip, invocations, i, err, waitVars, runGhost, analyzeVars,
      frameVars, batchVars, gemini_api_key>>

\* --batch: the SELECT of process_batch, lines 493-510.
worker_process_batch(p) ==
    /\ workers[p].pc = "idle"
    /\ \E limit \in 1..MaxVideos, source \in {0} \cup Sources :
          workers' = [workers EXCEPT ![p] =
                         [pc |-> "batch_loop",
                          videos |-> select_pending(db, limit, source),
                          i |-> 1, cur |-> 0]]
    /\ UNCHANGED <<db, tx, saves, pipelineVars>>

\* --video-id: one job, whatever its status.
worker_main_process_video(p) ==
    /\ workers[p].pc = "idle"
    /\ \E v \in Videos :
          workers' = [workers EXCEPT ![p] =
                         [pc |-> "batch_loop", videos |-> <<v>>,
                          i |-> 1, cur |-> 0]]
    /\ UNCHANGED <<db, tx, saves, pipelineVars>>

\* process_video(video_id=video['id']) is entered: lines 382-422.
worker_call(p) ==
    /\ workers[p].pc = "batch_loop"
    /\ workers[p].i <= Len(workers[p].videos)
    /\ workers' = [workers EXCEPT ![p].pc = "process_video",
                                  ![p].cur = workers[p].videos[workers[p].i]]
    /\ UNCHANGED <<db, tx, saves, pipelineVars>>

\* process_video returns after its save committed, or raises.
worker_return(p) ==
    /\ workers[p].pc = "process_video"
    /\ LET v == workers[p].cur
       IN  \/ /\ db' = DatabaseConnection_exit(
                           FALSE, db,
                           [db EXCEPT
                               !.video_analysis =
                                   upsert_analysis(db.video_analysis, v,
                                                   saves[v] + 1),
                               !.videos = set_analysis_completed(db.videos, v)])
              /\ tx' = db'
              /\ saves' = [saves EXCEPT ![v] = @ + 1]
           \/ UNCHANGED <<db, tx, saves>>
    /\ workers' = [workers EXCEPT ![p].pc = "batch_loop",
                                  ![p].cur = 0,
                                  ![p].i = @ + 1]
    /\ UNCHANGED pipelineVars

\* The loop is exhausted: the process exits.
worker_exit(p) ==
    /\ workers[p].pc = "batch_loop"
    /\ workers[p].i > Len(workers[p].videos)
    /\ workers' = [workers EXCEPT ![p].pc = "exited"]
    /\ UNCHANGED <<db, tx, saves, pipelineVars>>

NextConcurrent ==
    \E p \in Workers :
        \/ worker_process_batch(p)
        \/ worker_main_process_video(p)
        \/ worker_call(p)
        \/ worker_return(p)
        \/ worker_exit(p)

SpecConcurrent == Init /\ [][NextConcurrent]_vars

(***************************************************************************)
(* One process_batch invocation run to its end. The program is a single    *)
(* sequential thread: as long as each external call returns, its next step *)
(* is eventually taken; the second condition is the remote service         *)
(* eventually reporting a state other than PROCESSING for a polled handle. *)
(***************************************************************************)
NextBatchRun ==
    \/ process_batch_select
    \/ process_batch_call
    \/ process_batch_next
    \/ process_batch_end
    \/ PipelineStep

\* genai.get_file returns the handle in a state other than PROCESSING.
analyze_poll_leaves == analyze_poll /\ fileState' # "PROCESSING"

SpecBatchRun ==
    /\ Init /\ [][NextBatchRun]_vars
    /\ WF_vars(NextBatchRun)
    /\ SF_vars(analyze_poll_leaves)

\* The same without the condition on the polled handle.
SpecBatchRunAnyPoll ==
    /\ Init /\ [][NextBatchRun]_vars
    /\ WF_vars(NextBatchRun)

(***************************************************************************)
(* Properties.                                                             *)
(***************************************************************************)
AnalysisRows(d, v) == {row \in d.video_analysis : row.video_id = v}
MomentRows(d, v) == {row \in d.video_moments : row.video_id = v}
FramesOf(v) == {f \in fs.frames : f.dir = v}
CeilDiv(a, b) == (a + b - 1) \div b

\* C1: in process_batch every selected job is passed to process_video exactly
\* once, in selection order, whichever of them fail; the batch reaches its
\* end, and every job that did not complete is reported.
C1_BatchIsolation ==
    /\ Len(attempted) <= Len(selected)
    /\ attempted = SubSeq(selected, 1, Len(attempted))
    /\ pc = "batch_done" =>
          /\ attempted = selected
          /\ Cardinality(Range(selected)) = Len(selected)
          /\ \A v \in Range(selected) :
                v \in reported \/ db.videos[v].analysis_status = "completed"

\* A batch in which the first job failed and the second one was completed.
C1_Witness ==
    /\ pc = "batch_done"
    /\ Len(selected) >= 2
    /\ selected[1] \in reported
    /\ selected[2] \notin reported
    /\ db.videos[selected[2]].analysis_status = "completed"

\* The effects of the running save, all present in database state d.
SaveVisible(d) ==
    /\ \E row \in AnalysisRows(d, cur) :
          row.cols["raw_response"] = saves[cur] + 1
    /\ \A k \in 1..Len(analysis.key_moments) :
          moment_conflict(d.video_moments, cur, analysis.key_moments[k])
    /\ d.videos[cur].analysis_status = "completed"

C2_StatusHasRow ==
    \A v \in Videos :
        db.videos[v].analysis_status = "completed" => AnalysisRows(db, v) # {}

C2_SaveStep ==
    pc \in SavePcs =>
        /\ db' = db \/ SaveVisible(db')
        /\ err' = "PersistenceError" => db' = db

\* C2: while save_analysis_to_db runs, the committed state either does not
\* change or receives the upsert, every key moment and the 'completed'
\* status together; a save that raises commits nothing; and a video whose
\* analysis_status is 'completed' has an AnalysisResult row.
C2_AllOrNothing == [](C2_StatusHasRow) /\ [][C2_SaveStep]_vars

\* A save that raised after its upsert and a key-moment insert were executed.
C2_Witness ==
    /\ pc = "failed" /\ err = "PersistenceError"
    /\ i >= 2
    /\ db.videos[cur].analysis_status = "pending"
    /\ AnalysisRows(db, cur) = {}

\* C3 as stated: the downloader is invoked in a run exactly when the run is
\* not one with skip-on-exists set and the file present.
C3_Original ==
    pc \in {"done", "failed"} =>
        (("downloader" \in invoked) <=> ~(skip /\ hadFile))

\* C3, amended: with skip-on-exists set and the file present the downloader
\* is never invoked and the file stays in place until the cleanup; in every
\* other case the run ends with the downloader invoked, or with the wait for
\* the download resource timed out.
C3_SkipOnExists ==
    /\ (cur # 0 /\ skip /\ hadFile) =>
          /\ "downloader" \notin invoked
          /\ pc # "done" => cur \in fs.video
    /\ (pc \in {"done", "failed"} /\ ~(skip /\ hadFile)) =>
          ("downloader" \in invoked \/ timedOut = "youtube_data")

\* A completed run that used the file already on disk.
C3_Witness ==
    /\ pc = "done" /\ skip /\ hadFile
    /\ "downloader" \notin invoked
    /\ "analyzer" \in invoked

\* C4: in every run the downloader is invoked only after a grant for
\* 'youtube_data', the analyzer only after a grant for 'gemini_flash', and
\* an acquire that times out leaves the operation it gates uninvoked.
C4_GrantBeforeUse ==
    /\ "downloader" \in invoked => "youtube_data" \in grants
    /\ "analyzer" \in invoked => "gemini_flash" \in grants
    /\ timedOut = "youtube_data" => "downloader" \notin invoked
    /\ timedOut = "gemini_flash" => "analyzer" \notin invoked

\* A run whose download was granted and made, and whose analysis wait timed out.
C4_Witness ==
    /\ pc = "failed" /\ timedOut = "gemini_flash"
    /\ "downloader" \in invoked
    /\ "youtube_data" \in grants

\* C5: while every check is denied, wait_for_rate_limit has made one check per
\* poll interval waited and stops waiting once max_wait has elapsed; it ends
\* by raising, without a grant, after at most max_wait / poll_interval checks,
\* the quotient rounded up, plus one.
C5_WaitTimeout ==
    /\ pc \in WaitPcs =>
          /\ checks * PollInterval = waited
          /\ waited < max_wait + PollInterval
    /\ err = "RateLimitTimeout" =>
          /\ pc = "failed"
          /\ api \notin grants
          /\ waited >= max_wait
          /\ checks <= CeilDiv(max_wait, PollInterval) + 1

\* The default wait, denied throughout: 13 checks, then the timeout.
C5_Witness ==
    /\ err = "RateLimitTimeout"
    /\ max_wait = DefaultMaxWait
    /\ checks = (DefaultMaxWait \div PollInterval) + 1

\* C6: a response text that is not the expected JSON object never makes
\* analyze_video_with_gemini raise; the result is degraded: it carries the
\* error marker and its summary is the cleaned text cut to 1000 characters.
C6_DegradedNeverRaises ==
    (pc # "parse" /\ json_loads(clean_text(text)) # "dict") =>
        /\ err = "none"
        /\ analysis.kind = "degraded"
        /\ analysis.error
        /\ analysis.summary = slice_to(clean_text(text), SummaryCap)

\* C7: the mapping extract_frames_batch builds holds exactly the timestamps
\* whose frame was extracted in this call, and no timestamp's failure raises.
C7_ExactlyExtracted ==
    pc = "extract" =>
        /\ extracted = wrote
        /\ err = "none"

\* The columns C8 names as superseded by a second save.
C8_Superseded ==
    {"summary", "summary_pt", "difficulty_level", "key_topics",
     "techniques_shown", "raw_response", "updated_at"}

\* C8: a video has no AnalysisResult row before its first committed save and
\* exactly one after; after the k-th save the superseded columns hold the
\* k-th save's values and the other columns the first save's.
C8_Upsert ==
    \A v \in Videos :
        /\ Cardinality(AnalysisRows(db, v)) <= 1
        /\ Cardinality(AnalysisRows(tx, v)) <= 1
        /\ saves[v] = 0 => AnalysisRows(db, v) = {}
        /\ saves[v] >= 1 =>
              \E row \in AnalysisRows(db, v) :
                  \A c \in Columns :
                      row.cols[c] =
                          IF c \in C8_Superseded
                          THEN IF c = "updated_at" /\ saves[v] = 1
                               THEN 0
                               ELSE saves[v]
                          ELSE 1

\* A video saved twice: one row, mixing the second save and the first.
C8_Witness ==
    \E v \in Videos :
        /\ saves[v] = 2
        /\ \E row \in AnalysisRows(db, v) :
              row.cols["summary"] = 2 /\ row.cols["model_used"] = 1

SameMoment(r1, r2) ==
    /\ r1.video_id = r2.video_id
    /\ r1.timestamp_seconds = r2.timestamp_seconds

C9_Unique ==
    /\ \A r1, r2 \in db.video_moments : SameMoment(r1, r2) => r1 = r2
    /\ \A r1, r2 \in tx.video_moments : SameMoment(r1, r2) => r1 = r2

C9_Kept ==
    /\ \A r \in db.video_moments :
          \E r2 \in db'.video_moments :
              SameMoment(r, r2) /\ r2.content = r.content
    /\ (pc \in SavePcs /\ pc' \in SavePcs) =>
          \A r \in tx.video_moments :
              \E r2 \in tx'.video_moments :
                  SameMoment(r, r2) /\ r2.content = r.content

\* C9: no two KeyMoment rows ever share (video id, timestamp), in the
\* committed state or inside a transaction, and a row once inserted keeps its
\* fields whatever is inserted after it.
C9_NoDuplicateMoments == [](C9_Unique) /\ [][C9_Kept]_vars

\* A committed second save that listed one timestamp twice, a timestamp whose
\* row an earlier save had inserted.
C9_Witness ==
    /\ pc \in {"extract", "cleanup", "done"}
    /\ \E k1, k2 \in 1..Len(analysis.key_moments) :
          k1 # k2 /\ analysis.key_moments[k1] = analysis.key_moments[k2]
    /\ \E row \in MomentRows(db, cur) :
          /\ row.timestamp_seconds \in Range(analysis.key_moments)
          /\ row.content[1] < saves[cur]

\* A completed run whose n >= 1 key moments have distinct in-range timestamps
\* and whose frames were all extracted.
FullySuccessful ==
    /\ pc = "done"
    /\ analysis.kind = "parsed"
    /\ analysis.key_moments # << >>
    /\ Cardinality(Range(analysis.key_moments)) = Len(analysis.key_moments)
    /\ Range(analysis.key_moments) \subseteq InRange
    /\ wrote = Range(analysis.key_moments)

C10_Common ==
    /\ Cardinality(AnalysisRows(db, cur)) = 1
    /\ \A ts \in Range(analysis.key_moments) :
          /\ \E row \in MomentRows(db, cur) :
                /\ row.timestamp_seconds = ts
                /\ row.frame_path = frame_path_of(cur, ts)
          /\ frame_path_of(cur, ts) \in fs.frames
    /\ db.videos[cur].analysis_status = "completed"
    /\ db.videos[cur].frames_status = "completed"
    /\ cur \notin fs.video

\* C10 as stated: the run ends with exactly n KeyMoment rows and n frames.
C10_Original ==
    FullySuccessful =>
        /\ C10_Common
        /\ Cardinality(MomentRows(db, cur)) = Len(analysis.key_moments)
        /\ Cardinality(FramesOf(cur)) = Len(analysis.key_moments)

\* C10, amended: the KeyMoment rows and the frame images of the video are the
\* n of this run together with those the video had when the run began.
C10_EndToEnd ==
    FullySuccessful =>
        /\ C10_Common
        /\ Cardinality(MomentRows(db, cur)) =
              Cardinality(Range(analysis.key_moments) \cup before.moments)
        /\ {row.timestamp_seconds : row \in MomentRows(db, cur)} =
              Range(analysis.key_moments) \cup before.moments
        /\ FramesOf(cur) =
              {frame_path_of(cur, ts) : ts \in Range(analysis.key_moments)}
                  \cup before.frames

\* The run of the scenario: two key moments, at 10 s and 80 s, on a video
\* without earlier rows or frames.
C10_Witness ==
    /\ FullySuccessful
    /\ Range(analysis.key_moments) = {10, 80}
    /\ before.moments = {} /\ before.frames = {}
    /\ Cardinality(MomentRows(db, cur)) = 2
    /\ Cardinality(FramesOf(cur)) = 2

\* C11: no two invocations running at the same time against one store ever
\* process the same video id at once.
C11_ExclusiveOwnership ==
    \A p, q \in Workers :
        (p # q /\ workers[p].cur # 0) => workers[p].cur # workers[q].cur

\* The stage of process_video a position belongs to: 1 download, 2 remote
\* analysis, 3 result persistence, 4 frame extraction (left by the frame-path
\* transaction, stage 5), 6 video-file deletion, 7 completed.
Stage(p) ==
    CASE p \in {"wait_download", "download"} -> 1
      [] p \in {"wait_analysis", "upload", "poll", "poll_sleep", "parse"} -> 2
      [] p \in SavePcs -> 3
      [] p = "extract" -> 4
      [] p = "cleanup" -> 6
      [] p = "done" -> 7
      [] OTHER -> 0

\* The save of the running process_video is committed.
ThisRunSaved ==
    /\ \E row \in AnalysisRows(db, cur) :
          row \notin before.analysis /\ row.cols["raw_response"] = saves[cur]
    /\ \A k \in 1..Len(analysis.key_moments) :
          moment_conflict(db.video_moments, cur, analysis.key_moments[k])
    /\ db.videos[cur].analysis_status = "completed"

C12_Durable ==
    /\ Stage(pc) = 2 =>
          /\ cur \in fs.video
          /\ "downloader" \in invoked \/ (skip /\ hadFile)
          /\ "transcoder" \notin invoked
    /\ "analyzer" \in invoked => "gemini_flash" \in grants
    /\ "generate_content" \in invoked => "analyzer" \in invoked
    /\ Stage(pc) = 3 =>
          /\ analysis.has_metadata
          /\ "generate_content" \in invoked
          /\ "transcoder" \notin invoked
          /\ db.video_analysis = before.analysis \cup
                 {row \in db.video_analysis : row.video_id # cur}
    /\ (Stage(pc) \in {4, 6} \/ "transcoder" \in invoked) =>
          /\ ThisRunSaved
          /\ "generate_content" \in invoked
    /\ Stage(pc) \in {4, 6} => cur \in fs.video
    /\ (Stage(pc) \in {6, 7} /\ analysis.key_moments # << >>) =>
          /\ "transcoder" \in invoked
          /\ db.videos[cur].frames_status = "completed"
    /\ Stage(pc) = 7 => cur \notin fs.video

C12_Forward ==
    Stage(pc) \in 1..6 =>
        \/ pc' = "failed"
        \/ /\ Stage(pc') >= Stage(pc)
           /\ err' = "none"
           /\ cur' = cur

\* C12: within one process_video run the stages occur in the order download,
\* remote analysis, result persistence, frame extraction, frame-path
\* persistence, video-file deletion; a stage is entered only with its
\* predecessor's effect in place: the video file is on disk while the analysis
\* runs, and this run's save is committed before any frame is extracted.
C12_StageOrder == [](C12_Durable) /\ [][C12_Forward]_vars

\* A completed run that went through every stage.
C12_Witness ==
    /\ pc = "done"
    /\ invoked = {"downloader", "analyzer", "generate_content", "transcoder"}
    /\ db.videos[cur].frames_status = "completed"

C13_Ends ==
    /\ pc = "done" => (err = "none" /\ cur \notin fs.video)
    /\ pc = "failed" =>
          /\ err # "none"
          /\ (err # "DownloadError" /\ timedOut # "youtube_data") =>
                cur \in fs.video
          /\ hadFile => cur \in fs.video

C13_Step ==
    /\ \A v \in fs.video \ fs'.video :
          v = cur /\ pc = "cleanup" /\ pc' = "done" /\ err' = "none"
    /\ fs.frames \subseteq fs'.frames
    /\ pc = "failed" =>
          /\ pc' \in {"failed", "idle"}
          /\ db' = db /\ fs' = fs
          /\ invoked' \subseteq invoked

\* C13: the local video file is deleted exactly by the cleanup of a run that
\* completes without error (frame images are never deleted); a run that fails
\* executes nothing further and leaves the video file it had in place.
C13_DeleteOnSuccessOnly == [](C13_Ends) /\ [][C13_Step]_vars

\* A run that failed in the frame-path transaction: the video file is there.
C13_Witness ==
    /\ pc = "failed" /\ err = "PersistenceError"
    /\ "transcoder" \in invoked
    /\ cur \in fs.video

\* The frame_path columns of the running video's rows in database state d.
FramePaths(d) ==
    {<<row.timestamp_seconds, row.frame_path>> : row \in MomentRows(d, cur)}

\* Extraction has finished: every timestamp was tried.
ExtractionFinished ==
    /\ analysis.key_moments # << >>
    /\ "transcoder" \in invoked
    /\ pc # "extract" \/ i > Len(analysis.key_moments)

\* What C14 says of a run that got through the frame-path transaction: the
\* frames_status is 'completed' however many extractions failed, extracted
\* timestamps have their path, and a row with a path is an extracted one or
\* one whose frame image an earlier run left.
C14_Completed ==
    (analysis.key_moments # << >> /\ pc \in {"cleanup", "done"}) =>
        /\ err = "none"
        /\ db.videos[cur].frames_status = "completed"
        /\ \A row \in MomentRows(db, cur) :
              /\ row.timestamp_seconds \in extracted =>
                    row.frame_path = frame_path_of(cur, row.timestamp_seconds)
              /\ row.frame_path # NoPath =>
                    \/ row.timestamp_seconds \in extracted
                    \/ row.frame_path \in before.frames

C16_StatusUnchanged ==
    (pc = "failed" /\ err = "PersistenceError") =>
        /\ db.videos[cur] = before.status
        /\ before.status.analysis_status = "pending" =>
              cur \in Range(select_pending(db, MaxVideos, 0))

\* C17: with GEMINI_API_KEY unset no download is attempted and no rate-limit
\* quota is consumed: the invocation fails before both.
C17_FatalAtStartup ==
    ~gemini_api_key =>
        /\ "downloader" \notin invoked
        /\ grants = {}
        /\ pc \notin {"download", "upload"}

\* The inference call is made by the step that leaves the poll loop with the
\* handle ACTIVE, and by no other step.
C18_Call ==
    ("generate_content" \in invoked' /\ "generate_content" \notin invoked) =>
        /\ pc = "poll" /\ fileState = "ACTIVE" /\ fileState' = "ACTIVE"
        /\ "analyzer" \in invoked

C18_State ==
    /\ "generate_content" \in invoked =>
          /\ fileState = "ACTIVE"
          /\ pc \notin {"upload", "poll", "poll_sleep"}
    /\ (pc = "failed" /\ "analyzer" \in invoked
            /\ fileState \notin {"none", "PROCESSING", "ACTIVE"}) =>
          /\ err = processing_error(fileState)
          /\ "generate_content" \notin invoked
    /\ pc \in {"poll", "poll_sleep"} => err = "none"

\* C18: analyze_video_with_gemini calls generate_content only once the handle
\* has been seen ACTIVE, and at most once (after the call it never polls
\* again); a handle that leaves PROCESSING in any other state makes it fail
\* with the error that carries that state, without an inference call.
C18_InferenceAfterActive == [](C18_State) /\ [][C18_Call]_vars

\* An analysis that failed on a handle whose state ended FAILED.
C18_Witness ==
    /\ pc = "failed"
    /\ fileState = "FAILED"
    /\ err = "ProcessingError(FAILED)"
    /\ "analyzer" \in invoked
    /\ "generate_content" \notin invoked

\* The running analysis has no key moment and its save is committed.
ZeroMoments ==
    /\ pc \in {"cleanup", "done"}
    /\ analysis.key_moments = << >>

C19_State ==
    /\ analysis.kind = "degraded" => analysis.key_moments = << >>
    /\ ZeroMoments =>
          /\ err = "none"
          /\ "transcoder" \notin invoked
          /\ extracted = {}
          /\ FramesOf(cur) = before.frames
          /\ db.videos[cur].analysis_status = "completed"
          /\ db.videos[cur].frames_status = before.status.frames_status
          /\ pc = "done" => cur \notin fs.video

C19_Step ==
    (ZeroMoments /\ pc = "cleanup") =>
        /\ pc' = "done"
        /\ db' = db

\* C19: with zero key moments (as in every degraded result) the frame
\* extraction is skipped: ffmpeg is never run, neither a frame path nor
\* frames_status is written, and the run goes from the committed save to the
\* cleanup and completes with analysis_status 'completed' and the video file
\* deleted.
C19_SkipFrames == [](C19_State) /\ [][C19_Step]_vars

\* A completed run on a degraded result.
C19_Witness ==
    /\ pc = "done"
    /\ analysis.kind = "degraded"
    /\ "transcoder" \notin invoked
    /\ db.videos[cur].analysis_status = "completed"
    /\ db.videos[cur].frames_status = "pending"
    /\ cur \notin fs.video

C20_State ==
    /\ err = "DownloadError" =>
          /\ pc = "failed"
          /\ "downloader" \in invoked
          /\ AnalysisResource \notin grants
          /\ invoked = {"downloader"}
          /\ db.videos[cur] = before.status
          /\ AnalysisRows(db, cur) = before.analysis
          /\ {row.timestamp_seconds : row \in MomentRows(db, cur)} =
                before.moments
          /\ tx = db
    /\ ("downloader" \in invoked /\ Stage(pc) \in 2..6) => cur \in fs.video

C20_Step ==
    pc = "download" =>
        \/ /\ pc' = "wait_analysis" /\ err' = "none"
           /\ cur \in fs'.video
        \/ /\ pc' = "failed" /\ err' = "DownloadError"
           /\ db' = db

\* C20: the download step ends either with the file on disk and the run
\* going on to the analysis wait, or with process_video failing on
\* download_video's False; after that failure nothing downstream has happened:
\* no 'gemini_flash' grant, no analyzer or inference call, no change to the
\* job's AnalysisResult, KeyMoment rows or status fields.
C20_DownloadFailure == [](C20_State) /\ [][C20_Step]_vars

\* A failed download of a pending job: the job is still pending.
C20_Witness ==
    /\ pc = "failed" /\ err = "DownloadError"
    /\ cur \notin fs.video
    /\ db.videos[cur].analysis_status = "pending"
    /\ cur \in Range(select_pending(db, MaxVideos, 0))

\* Checks wait_for_rate_limit can still make before it must return or raise.
ChecksLeft ==
    IF wait_expired(waited, max_wait)
    THEN 1
    ELSE CeilDiv(max_wait - waited, PollInterval) + 1

\* Iterations the running loop over key_moments still has to make.
MomentsLeft == Len(analysis.key_moments) + 1 - i

\* Steps process_video can still take, the polls of a PROCESSING handle apart.
RunVariant ==
    CASE pc = "wait_download" -> 1000 + ChecksLeft
      [] pc = "download" -> 900
      [] pc = "wait_analysis" -> 800 + ChecksLeft
      [] pc = "upload" -> 700
      [] pc = "poll_sleep" -> 602
      [] pc = "poll" -> 600 + (IF fileState = "PROCESSING" THEN 3 ELSE 0)
      [] pc = "parse" -> 500
      [] pc = "save" -> 400
      [] pc = "save_moments" -> 300 + MomentsLeft
      [] pc = "extract" -> 200 + MomentsLeft
      [] pc = "cleanup" -> 100
      [] OTHER -> 0

\* The same for process_batch: the jobs left, then the running job's steps.
BatchVariant ==
    CASE pc = "idle" -> 2000 * (MaxVideos + 2)
      [] pc = "batch_loop" -> 2000 * (Len(selected) + 1 - bi) + 1500
      [] pc = "batch_done" -> 0
      [] OTHER -> 2000 * (Len(selected) + 1 - bi) + RunVariant

C21_Bounded ==
    /\ BatchVariant >= 0
    /\ \/ BatchVariant' < BatchVariant
       \/ /\ pc = "poll_sleep" /\ pc' = "poll"
          /\ fileState = "PROCESSING" /\ fileState' = "PROCESSING"

C21_Ends ==
    /\ pc \in WaitPcs => checks <= CeilDiv(max_wait, PollInterval)
    /\ pc = "done" =>
          (err = "none" /\ db.videos[cur].analysis_status = "completed")
    /\ pc = "failed" => err # "none"

\* C21: as long as each external call returns and a polled handle eventually
\* leaves PROCESSING, every process_video run ends completed or failed and
\* the batch over its selection reaches its end; every step but a poll that
\* finds the handle still PROCESSING brings that end nearer, so that
\* wait_for_rate_limit ends in a grant or a timeout after a bounded number of
\* checks and the poll is the only loop without a bound of its own.
C21_Terminates ==
    /\ (Stage(pc) \in 1..6) ~> (pc \in {"done", "failed"})
    /\ (pc = "batch_loop") ~> (pc = "batch_done")
    /\ [](C21_Ends)
    /\ [][C21_Bounded]_vars

\* C21 without its proviso: every run ends, whatever the polled handle does.
C21_TerminatesAnyPoll == (Stage(pc) \in 1..6) ~> (pc \in {"done", "failed"})

\* A batch of two jobs that reached its end with both completed.
C21_Witness ==
    /\ pc = "batch_done"
    /\ Len(attempted) = 2
    /\ reported = {}
    /\ \A k \in 1..2 : db.videos[attempted[k]].analysis_status = "completed"

====
